---- MODULE Spec2Model ----
(***************************************************************************)
(* Model of keras_multi_head/multi_head_attention.py: the MultiHeadAttention *)
(* layer.  The state is one layer instance (its configuration, its kernels  *)
(* dictionary, the number of weights it has asked the framework for) plus   *)
(* `ret`, the outcome of the last method that ran on it.  Tensors are       *)
(* sequences (batch) of sequences (time) of sequences (features) of         *)
(* integers; matrices are sequences of rows.                                *)
(***************************************************************************)
EXTENDS Integers, Sequences, FiniteSets, TLC

VARIABLES head_num, activation, kernel_initializer, kernel_regularizer,
          kernel_constraint, name, kernels, built, allocated, ret

vars == <<head_num, activation, kernel_initializer, kernel_regularizer,
          kernel_constraint, name, kernels, built, allocated, ret>>

config == <<head_num, activation, kernel_initializer, kernel_regularizer,
            kernel_constraint, name>>

----------------------------------------------------------------------------
(* Bounds of the model. *)

MaxHeads == 3
MaxFeat == 4
MaxBatch == 2
MaxSeq == 2
MaxBuilds == 2

----------------------------------------------------------------------------
(* Python values. *)

(* An optional tensor, mask, weight or exception: <<>> is None, <<x>> is x. *)
None == <<>>
Some(x) == <<x>>

(* None among identifiers (activation, regularizer, constraint names). *)
NoneId == "None"

(* The sequence with the elements of f, a function on 1..n, evaluated once. *)
List(f) == <<>> \o f

(* '%d' % n *)
FormatD(n) == ToString(n)

(* range(n) *)
Range(n) == List([i \in 1..n |-> i - 1])

Max(a, b) == IF a >= b THEN a ELSE b
Min(a, b) == IF a <= b THEN a ELSE b

----------------------------------------------------------------------------
(* Tensors and the backend operations the layer uses. *)

(* K.shape / K.int_shape of a rank-3 tensor. *)
Shape(x) == <<Len(x), Len(x[1]), Len(x[1][1])>>

RECURSIVE SumTo(_, _)
SumTo(f, n) == IF n = 0 THEN 0 ELSE f[n] + SumTo(f, n - 1)

(* K.dot(x, W): matrix product over the feature axis, batched over the rest. *)
Dot(x, W) ==
    List([b \in 1..Len(x) |->
      List([t \in 1..Len(x[b]) |->
        List([g \in 1..Len(W[1]) |->
          SumTo([f \in 1..Len(W) |-> x[b][t][f] * W[f][g]], Len(W))])])])

(* The activations keras.activations.get can hand back. *)
ApplyScalar(act, z) ==
    CASE act = "linear" -> z
      [] act = "relu"   -> Max(z, 0)
      [] act = "inc"    -> z + 1

ApplyActivation(act, x) ==
    List([b \in 1..Len(x) |->
      List([t \in 1..Len(x[b]) |->
        List([f \in 1..Len(x[b][t]) |-> ApplyScalar(act, x[b][t][f])])])])

(* x[:, :, begin:end] with Python's clipping of the bounds. *)
Slice(x, begin, end) ==
    List([b \in 1..Len(x) |->
      List([t \in 1..Len(x[b]) |->
        SubSeq(x[b][t], Max(begin, 0) + 1, Min(end, Len(x[b][t])))])])

RECURSIVE FlattenSeq(_)
FlattenSeq(ss) == IF ss = <<>> THEN <<>> ELSE Head(ss) \o FlattenSeq(Tail(ss))

(* K.concatenate(tensors): along the last axis. *)
Concatenate(tensors) ==
    List([b \in 1..Len(tensors[1]) |->
      List([t \in 1..Len(tensors[1][b]) |->
        FlattenSeq(List([i \in 1..Len(tensors) |-> tensors[i][b][t]]))])])

----------------------------------------------------------------------------
(* keras_self_attention.ScaledDotProductAttention, the primitive the layer   *)
(* composes.  It is outside this repository; the model keeps its contract    *)
(* (same leading dimensions as its inputs, trailing width of the value       *)
(* slice, a function of the three slices only) with integer arithmetic: the  *)
(* softmax weights over the keys become a one-hot on the best-scoring key,   *)
(* the first one on ties.  Scaling by 1/sqrt(d) does not change that key.    *)

Score(qs, ks, b, t, s) ==
    SumTo([f \in 1..Len(qs[b][t]) |-> qs[b][t][f] * ks[b][s][f]], Len(qs[b][t]))

BestKey(qs, ks, b, t) ==
    CHOOSE s \in 1..Len(ks[b]) :
        /\ \A s2 \in 1..Len(ks[b]) : Score(qs, ks, b, t, s) >= Score(qs, ks, b, t, s2)
        /\ \A s2 \in 1..(s - 1) : Score(qs, ks, b, t, s2) < Score(qs, ks, b, t, s)

ScaledDotProductAttention(qs, ks, vs) ==
    List([b \in 1..Len(qs) |->
      List([t \in 1..Len(qs[b]) |-> vs[b][BestKey(qs, ks, b, t)]])])

----------------------------------------------------------------------------
(* The values the operations are exercised with. *)

HeadNums == 1..MaxHeads
FeatureDims == 1..MaxFeat
Seeds == {0, 1}
LayerNames == {"mha_1", "multi_head_attention_1"}
ActivationIds == {NoneId, "relu", "inc"}
InitializerIds == {"identity", "glorot_normal"}
RegularizerIds == {NoneId, "l2"}
ConstraintIds == {NoneId, "max_norm"}

InputShapes == {<<MaxBatch, MaxSeq, f>> : f \in FeatureDims}

Tensor(shape, seed) ==
    List([b \in 1..shape[1] |->
      List([t \in 1..shape[2] |->
        List([f \in 1..shape[3] |-> ((seed + b + 2 * t + (seed + 1) * f) % 3) - 1])])])

Inputs == {Tensor(s, seed) : s \in InputShapes, seed \in Seeds}

MaskOf(b0, t0, seed) ==
    List([b \in 1..b0 |-> List([t \in 1..t0 |-> (b + t + seed) % 2 = 0])])

(* No mask, or a mask aligned with the batch and sequence axes of inputs. *)
MasksFor(inputs) ==
    {None} \cup {Some(MaskOf(Len(inputs), Len(inputs[1]), seed)) : seed \in Seeds}

CallMasksFor(inputs) == {None, Some(MaskOf(Len(inputs), Len(inputs[1]), 0))}

----------------------------------------------------------------------------
(* __init__ *)

KernelOrder == <<"Wq", "Wk", "Wv", "Wo">>
KernelNames == {KernelOrder[i] : i \in 1..Len(KernelOrder)}

(* keras.activations.get: None is the linear activation, a name or a        *)
(* callable is itself.                                                       *)
activations_get(identifier) ==
    IF identifier = NoneId THEN "linear" ELSE identifier

(* keras.initializers.get, keras.regularizers.get, keras.constraints.get:   *)
(* None stays None, a name is the object of that name.                       *)
initializers_get(identifier) == identifier
regularizers_get(identifier) == identifier
constraints_get(identifier) == identifier

(* The constructions explored.  The random initializer (the default) goes  *)
(* with the default activation, regularizer and constraint; the             *)
(* deterministic one goes with every activation, and with every regularizer *)
(* and constraint under the default activation.                             *)
Constructions ==
    {c \in [head_num : HeadNums, activation : ActivationIds,
            kernel_initializer : InitializerIds,
            kernel_regularizer : RegularizerIds,
            kernel_constraint : ConstraintIds, name : LayerNames] :
        \/ /\ c.kernel_initializer = "identity"
           /\ \/ c.activation = "relu"
              \/ c.kernel_regularizer = NoneId /\ c.kernel_constraint = NoneId
        \/ /\ c.activation = "relu"
           /\ c.kernel_regularizer = NoneId
           /\ c.kernel_constraint = NoneId
           /\ c.name = "mha_1"}

Init ==
    \E c \in Constructions :
      LET h == c.head_num
          a == c.activation
          ki == c.kernel_initializer
          kr == c.kernel_regularizer
          kc == c.kernel_constraint
          n == c.name
      IN
        /\ head_num = h
        /\ activation = activations_get(a)
        /\ kernel_initializer = initializers_get(ki)
        /\ kernel_regularizer = regularizers_get(kr)
        /\ kernel_constraint = constraints_get(kc)
        /\ kernels = [nm \in KernelNames |-> None]
        /\ name = n
        /\ built = FALSE
        /\ allocated = 0
        /\ ret = [op |-> "__init__"]

----------------------------------------------------------------------------
(* get_config, compute_output_shape, compute_mask *)

get_config ==
    [name |-> name,
     head_num |-> head_num,
     activation |-> activation,
     kernel_initializer |-> kernel_initializer,
     kernel_regularizer |-> kernel_regularizer,
     kernel_constraint |-> kernel_constraint]

GetConfig ==
    /\ ret' = [op |-> "get_config", val |-> get_config]
    /\ UNCHANGED <<config, kernels, built, allocated>>

(* A slip: the shape of one head's output. *)
compute_output_shape_head(input_shape) ==
    <<input_shape[1], input_shape[2], input_shape[3] \div head_num>>

compute_output_shape(input_shape) == input_shape

ComputeOutputShape(input_shape) ==
    /\ ret' = [op |-> "compute_output_shape",
               input_shape |-> input_shape,
               val |-> compute_output_shape(input_shape)]
    /\ UNCHANGED <<config, kernels, built, allocated>>

(* A slip: a mask of the layer's own, every position kept. *)
compute_mask_own(inputs, input_mask) ==
    Some(List([b \in 1..Len(inputs) |-> List([t \in 1..Len(inputs[b]) |-> TRUE])]))

compute_mask(inputs, input_mask) == input_mask

ComputeMask(inputs, input_mask) ==
    /\ ret' = [op |-> "compute_mask",
               input_mask |-> input_mask,
               val |-> compute_mask(inputs, input_mask)]
    /\ UNCHANGED <<config, kernels, built, allocated>>

----------------------------------------------------------------------------
(* build *)

Identity(n) == List([i \in 1..n |-> List([j \in 1..n |-> IF i = j THEN 1 ELSE 0])])
Drawn(n, seed) ==
    List([i \in 1..n |->
      List([j \in 1..n |-> ((seed + (seed + 1) * i + 2 * j) % 3) - 1])])

(* What an initializer can produce for an (n, n) weight.  glorot_normal is  *)
(* random: each weight is one draw, independent of the others.              *)
InitialValues(initializer, n) ==
    CASE initializer = "identity"      -> {Identity(n)}
      [] initializer = "glorot_normal" -> {Drawn(n, seed) : seed \in Seeds}

(* Layer.add_weight: the framework makes a new variable, the id-th one this *)
(* layer has asked for, holding what it was declared with.  A regularizer   *)
(* or constraint that is not passed is None.                                 *)
add_weight(id, shape, initializer, wname, regularizer, constraint, value) ==
    [id |-> id,
     name |-> wname,
     shape |-> shape,
     initializer |-> initializer,
     regularizer |-> regularizer,
     constraint |-> constraint,
     value |-> value]

(* A slip: the weight named after the layer alone. *)
WeightNameNoRole(nm) == name

(* '%s_%s' % (self.name, name) *)
WeightName(nm) == name \o "_" \o nm

(* The weight the loop's iteration `pos` declares for KernelOrder[pos]. *)
DeclareKernel(pos, feature_dim, value) ==
    add_weight(allocated + pos,
               <<feature_dim, feature_dim>>,
               kernel_initializer,
               WeightName(KernelOrder[pos]),
               NoneId,
               NoneId,
               value)

PosOf(nm) == CHOOSE pos \in 1..Len(KernelOrder) : KernelOrder[pos] = nm

IndexError(h, feature_dim) ==
    [type |-> "IndexError",
     msg |-> "Invalid head number " \o FormatD(h)
             \o " with the given input dim " \o FormatD(feature_dim)]

(* A slip: the operands of the divisibility test exchanged. *)
InvalidHeadNumberSwapped(feature_dim) == head_num % feature_dim # 0

(* "if feature_dim % self.head_num != 0" *)
InvalidHeadNumber(feature_dim) == feature_dim % head_num # 0

Build(input_shape) ==
    LET feature_dim == input_shape[Len(input_shape)] IN
    IF InvalidHeadNumber(feature_dim)
    THEN /\ ret' = [op |-> "build",
                    input_shape |-> input_shape,
                    raised |-> Some(IndexError(head_num, feature_dim))]
         /\ UNCHANGED <<config, kernels, built, allocated>>
    ELSE /\ allocated + Len(KernelOrder) <= MaxBuilds * Len(KernelOrder)
         /\ \E values \in [KernelNames -> InitialValues(kernel_initializer, feature_dim)] :
              kernels' = [nm \in KernelNames |->
                            Some(DeclareKernel(PosOf(nm), feature_dim, values[nm]))]
         /\ allocated' = allocated + Len(KernelOrder)
         /\ built' = TRUE
         /\ ret' = [op |-> "build",
                    input_shape |-> input_shape,
                    raised |-> None]
         /\ UNCHANGED config

----------------------------------------------------------------------------
(* call *)

(* A slip: the activation applied a second time. *)
ActivateTwice(x) ==
    IF activation # NoneId
    THEN ApplyActivation(activation, ApplyActivation(activation, x))
    ELSE x

(* "if self.activation is not None: x = self.activation(x)" *)
Activate(x) ==
    IF activation # NoneId THEN ApplyActivation(activation, x) ELSE x

(* '%s-Att-%d' % (self.name, i + 1) *)
AttentionName(i) == name \o "-Att-" \o FormatD(i + 1)

(* A slip: the slice taken at the number of heads done so far, not at i. *)
LoopBodyByCount(outputs, i, q, k, v, head_dim) ==
    LET begin == Len(outputs) * head_dim
        end == (Len(outputs) + 1) * head_dim
    IN  Append(outputs,
               [layer |-> AttentionName(i),
                q |-> <<begin, end>>,
                k |-> <<begin, end>>,
                v |-> <<begin, end>>,
                out |-> ScaledDotProductAttention(Slice(q, begin, end),
                                                  Slice(k, begin, end),
                                                  Slice(v, begin, end))])

(* A slip: every head given the first head's keys. *)
LoopBodyFirstKeys(outputs, i, q, k, v, head_dim) ==
    LET begin == i * head_dim
        end == (i + 1) * head_dim
    IN  Append(outputs,
               [layer |-> AttentionName(i),
                q |-> <<begin, end>>,
                k |-> <<0, head_dim>>,
                v |-> <<begin, end>>,
                out |-> ScaledDotProductAttention(Slice(q, begin, end),
                                                  Slice(k, 0, head_dim),
                                                  Slice(v, begin, end))])

(* One iteration of the loop over the heads: what `outputs` is after it.    *)
(* An entry is the tensor the primitive returned, with the layer name and   *)
(* the feature ranges it was invoked on.                                     *)
LoopBody(outputs, i, q, k, v, head_dim) ==
    LET begin == i * head_dim
        end == (i + 1) * head_dim
    IN  Append(outputs,
               [layer |-> AttentionName(i),
                q |-> <<begin, end>>,
                k |-> <<begin, end>>,
                v |-> <<begin, end>>,
                out |-> ScaledDotProductAttention(Slice(q, begin, end),
                                                  Slice(k, begin, end),
                                                  Slice(v, begin, end))])

(* The loop, over the head indices in `order`. *)
RECURSIVE HeadLoop(_, _, _, _, _, _)
HeadLoop(outputs, order, q, k, v, head_dim) ==
    IF order = <<>>
    THEN outputs
    ELSE HeadLoop(LoopBody(outputs, Head(order), q, k, v, head_dim),
                  Tail(order), q, k, v, head_dim)

Outs(outputs) == List([p \in 1..Len(outputs) |-> outputs[p].out])

(* The values call computes, given all four kernels. *)
call(inputs, mask) ==
    LET feature_dim == Shape(inputs)[3]
        head_dim == feature_dim \div head_num
        q == Activate(Dot(inputs, kernels["Wq"][1].value))
        k == Activate(Dot(inputs, kernels["Wk"][1].value))
        v == Activate(Dot(inputs, kernels["Wv"][1].value))
        outputs == HeadLoop(<<>>, Range(head_num), q, k, v, head_dim)
        concat == Concatenate(Outs(outputs))
        y == Activate(Dot(concat, kernels["Wo"][1].value))
    IN  [q |-> q, k |-> k, v |-> v, outputs |-> outputs, concat |-> concat, y |-> y]

(* K.dot fails on a kernel that is None and on one whose rows are not the   *)
(* input's feature width.                                                    *)
DotFails(inputs) ==
    \E nm \in KernelNames :
        \/ kernels[nm] = None
        \/ kernels[nm][1].shape[1] # Shape(inputs)[3]

(* A slip: call declaring the weights anew before it uses them. *)
CallRedeclaring(inputs, mask) ==
    /\ ~DotFails(inputs)
    /\ allocated + Len(KernelOrder) <= MaxBuilds * Len(KernelOrder)
    /\ kernels' = [nm \in KernelNames |->
                     Some(DeclareKernel(PosOf(nm), Shape(inputs)[3],
                                        kernels[nm][1].value))]
    /\ allocated' = allocated + Len(KernelOrder)
    /\ ret' = [op |-> "call",
               inputs |-> inputs,
               raised |-> None,
               val |-> call(inputs, mask)]
    /\ UNCHANGED <<config, built>>

Call(inputs, mask) ==
    /\ IF DotFails(inputs)
       THEN ret' = [op |-> "call",
                    raised |-> Some([type |-> "BackendError"])]
       ELSE ret' = [op |-> "call",
                    inputs |-> inputs,
                    raised |-> None,
                    val |-> call(inputs, mask)]
    /\ UNCHANGED <<config, kernels, built, allocated>>

----------------------------------------------------------------------------

Next ==
    \/ \E input_shape \in InputShapes : Build(input_shape)
    \/ \E inputs \in Inputs : \E mask \in CallMasksFor(inputs) : Call(inputs, mask)
    \/ \E input_shape \in InputShapes : ComputeOutputShape(input_shape)
    \/ \E inputs \in Inputs : \E input_mask \in MasksFor(inputs) :
          ComputeMask(inputs, input_mask)
    \/ GetConfig

Spec == Init /\ [][Next]_vars

----------------------------------------------------------------------------
(* Properties. *)

Matrix(W, rows, cols) ==
    /\ Len(W) = rows
    /\ \A i \in 1..rows : Len(W[i]) = cols

(* x is a tensor of exactly this shape, every row of every batch included. *)
HasShape(x, shape) ==
    /\ Len(x) = shape[1]
    /\ \A b \in 1..Len(x) :
         /\ Len(x[b]) = shape[2]
         /\ \A t \in 1..Len(x[b]) : Len(x[b][t]) = shape[3]

Built == \A nm \in KernelNames : kernels[nm] # None
Unset == \A nm \in KernelNames : kernels[nm] = None
Called == ret.op = "call" /\ ret.raised = None
BuiltNow == ret.op = "build" /\ ret.raised = None
Kernel(nm) == kernels[nm][1]

(* C1: the output has the shape of the input.  compute_output_shape returns *)
(* the input shape; and after a call, feature_dim is a multiple of head_num, *)
(* there are head_num head outputs of width feature_dim \div head_num, their *)
(* concatenation has width feature_dim, Wo is (feature_dim, feature_dim) and *)
(* y has the batch, sequence and feature sizes of the input.                 *)
C1_OutputShapeIsInputShape ==
    /\ ret.op = "compute_output_shape" => ret.val = ret.input_shape
    /\ Called =>
         LET shape == Shape(ret.inputs)
             feature_dim == shape[3]
             head_shape == <<shape[1], shape[2], feature_dim \div head_num>>
         IN  /\ HasShape(ret.inputs, shape)
             /\ feature_dim % head_num = 0
             /\ Len(ret.val.outputs) = head_num
             /\ \A p \in 1..head_num : HasShape(ret.val.outputs[p].out, head_shape)
             /\ HasShape(ret.val.concat, shape)
             /\ Matrix(Kernel("Wo").value, feature_dim, feature_dim)
             /\ HasShape(ret.val.y, shape)
             /\ compute_output_shape(shape) = Shape(ret.val.y)

C1_Witness ==
    /\ Called
    /\ head_num = 2
    /\ Shape(ret.inputs) = <<MaxBatch, MaxSeq, 4>>

(* C2: build raises exactly when feature_dim is not a multiple of head_num, *)
(* and the error it raises is the IndexError whose message holds head_num    *)
(* and feature_dim in decimal.                                               *)
C2_BuildRaisesIffNotDivisible ==
    ret.op = "build" =>
      LET feature_dim == ret.input_shape[3] IN
      /\ ret.raised # None <=> feature_dim % head_num # 0
      /\ ret.raised # None =>
           /\ ret.raised[1].type = "IndexError"
           /\ ret.raised[1].msg =
                "Invalid head number " \o ToString(head_num)
                \o " with the given input dim " \o ToString(feature_dim)

C2_Witness ==
    /\ ret.op = "build"
    /\ ret.raised # None
    /\ head_num = 3
    /\ ret.input_shape[3] = 4

(* C3: every allocated weight carries the regularizer and the constraint    *)
(* the layer was constructed with.                                           *)
C3_KernelsCarryRegularizerAndConstraint ==
    \A nm \in KernelNames :
      kernels[nm] # None =>
        /\ Kernel(nm).regularizer = kernel_regularizer
        /\ Kernel(nm).constraint = kernel_constraint

(* C4: compute_mask returns the mask it was given, None included. *)
C4_MaskPassedThrough ==
    ret.op = "compute_mask" => ret.val = ret.input_mask

C4_Witness ==
    /\ ret.op = "compute_mask"
    /\ ret.input_mask # None
    /\ ret.val = ret.input_mask

RoleKernel == [query |-> "Wq", key |-> "Wk", value |-> "Wv", output |-> "Wo"]
Roles == DOMAIN RoleKernel

(* C5: after a successful build the layer holds the four weights that build *)
(* declared, the last four the layer asked for; each is (feature_dim,        *)
(* feature_dim); the weight of a role is named after the layer and the role; *)
(* and two roles never share a name.                                         *)
C5_FourDistinctNamedWeights ==
    BuiltNow =>
      LET feature_dim == ret.input_shape[3] IN
      /\ DOMAIN kernels = {RoleKernel[r] : r \in Roles}
      /\ Cardinality(DOMAIN kernels) = 4
      /\ Built
      /\ {Kernel(nm).id : nm \in KernelNames} = (allocated - 3)..allocated
      /\ \A nm \in KernelNames :
           /\ Kernel(nm).shape = <<feature_dim, feature_dim>>
           /\ Matrix(Kernel(nm).value, feature_dim, feature_dim)
      /\ \A r \in Roles :
           Kernel(RoleKernel[r]).name = name \o "_" \o RoleKernel[r]
      /\ \A r1, r2 \in Roles :
           Kernel(RoleKernel[r1]).name = Kernel(RoleKernel[r2]).name => r1 = r2

C5_Witness ==
    /\ BuiltNow
    /\ name = "mha_1"
    /\ Kernel("Wq").name = "mha_1_Wq"
    /\ Kernel("Wo").name = "mha_1_Wo"

(* C6: the kernels are unset until the first successful build, and once     *)
(* they are set no later step replaces any of them.                          *)
C6_WeightsCreatedOnce ==
    /\ [](~built => Unset)
    /\ [][Built => kernels' = kernels]_vars

(* C7: a call leaves the four kernels, the configuration, the built flag    *)
(* and the number of declared weights as they were.                          *)
C7_CallOnlyReads ==
    [][ret'.op = "call" => UNCHANGED <<kernels, config, built, allocated>>]_vars

C7_Witness ==
    /\ Called
    /\ kernel_initializer = "glorot_normal"
    /\ allocated = Len(KernelOrder)

(* Columns lo..hi (counted from 1) of a tensor. *)
Cols(x, lo, hi) ==
    List([b \in 1..Len(x) |->
      List([t \in 1..Len(x[b]) |->
        List([c \in 1..(hi - lo + 1) |-> x[b][t][lo + c - 1]])])])

(* The tensor x with every feature outside columns lo..hi set to zero. *)
Only(x, lo, hi) ==
    List([b \in 1..Len(x) |->
      List([t \in 1..Len(x[b]) |->
        List([c \in 1..Len(x[b][t]) |->
          IF lo <= c /\ c <= hi THEN x[b][t][c] ELSE 0])])])

(* The orders in which the heads 0..n-1 can be evaluated. *)
Orders(n) ==
    {List(f) : f \in {g \in [1..n -> 0..(n - 1)] :
                        \A a, b \in 1..n : g[a] = g[b] => a = b}}

(* Head i's result put at position i, whatever the order it was computed in. *)
Placed(results, order) ==
    List([p \in 1..Len(order) |->
      results[CHOOSE j \in 1..Len(order) : order[j] = p - 1]])

(* C8: head independence.  Evaluating the heads in any order and putting    *)
(* head i's output at position i gives the concatenation and the output of   *)
(* the call; and head i's output is the same when every feature of q, k and  *)
(* v outside the i-th slice is zeroed.                                       *)
C8_HeadIndependence ==
    Called =>
      LET feature_dim == Shape(ret.inputs)[3]
          head_dim == feature_dim \div head_num
          q == ret.val.q
          k == ret.val.k
          v == ret.val.v
      IN  /\ \A order \in Orders(head_num) :
               LET results == Outs(HeadLoop(<<>>, order, q, k, v, head_dim))
                   concat == Concatenate(Placed(results, order))
               IN  /\ concat = ret.val.concat
                   /\ Activate(Dot(concat, Kernel("Wo").value)) = ret.val.y
          /\ \A i \in 0..(head_num - 1) :
               LET lo == i * head_dim + 1
                   hi == (i + 1) * head_dim
                   alone == LoopBody(<<>>, i, Only(q, lo, hi), Only(k, lo, hi),
                                     Only(v, lo, hi), head_dim)
               IN  alone[1].out = ret.val.outputs[i + 1].out

C8_Witness ==
    /\ Called
    /\ head_num = MaxHeads
    /\ ret.val.outputs[1].out # ret.val.outputs[2].out

(* The features a recorded range [begin, end) covers. *)
Covered(range) == range[1]..(range[2] - 1)

(* C9: head i is the primitive applied to columns [i*head_dim,              *)
(* (i+1)*head_dim) of q, of k and of v, and its output is columns            *)
(* [i*head_dim, (i+1)*head_dim) of the concatenation; the head_num ranges    *)
(* are pairwise disjoint, each starts where the one before ends, and         *)
(* together they are the features 0..feature_dim-1.                          *)
C9_HeadSlicesInOrder ==
    Called =>
      LET feature_dim == Shape(ret.inputs)[3]
          head_dim == feature_dim \div head_num
          outputs == ret.val.outputs
      IN  /\ Len(outputs) = head_num
          /\ \A i \in 0..(head_num - 1) :
               LET entry == outputs[i + 1]
                   lo == i * head_dim + 1
                   hi == (i + 1) * head_dim
               IN  /\ entry.q = <<i * head_dim, (i + 1) * head_dim>>
                   /\ entry.k = entry.q
                   /\ entry.v = entry.q
                   /\ entry.out = ScaledDotProductAttention(Cols(ret.val.q, lo, hi),
                                                            Cols(ret.val.k, lo, hi),
                                                            Cols(ret.val.v, lo, hi))
                   /\ Cols(ret.val.concat, lo, hi) = entry.out
          /\ feature_dim % head_num = 0 =>
               /\ \A i, j \in 1..head_num :
                    i # j => Covered(outputs[i].q) \cap Covered(outputs[j].q) = {}
               /\ \A i \in 1..(head_num - 1) : outputs[i].q[2] = outputs[i + 1].q[1]
               /\ UNION {Covered(outputs[i].q) : i \in 1..head_num}
                    = 0..(feature_dim - 1)

C9_Witness ==
    /\ Called
    /\ head_num = 2
    /\ Shape(ret.inputs)[3] = 4
    /\ ret.val.outputs[2].k = <<2, 4>>

(* The activation `act` applied once to every element of x. *)
Once(act, x) ==
    List([b \in 1..Len(x) |->
      List([t \in 1..Len(x[b]) |->
        List([f \in 1..Len(x[b][t]) |->
          LET z == x[b][t][f]
          IN  CASE act = "relu"   -> IF z > 0 THEN z ELSE 0
                [] act = "inc"    -> z + 1
                [] act = "linear" -> z])])])

(* C10: q, k and v are the activation applied once to the products of the   *)
(* input with Wq, Wk and Wv; the heads are the primitive on the slices of    *)
(* those, and the concatenation is of the heads, with no activation in       *)
(* between; y is the activation applied once to the product of the           *)
(* concatenation with Wo; and with no activation configured q, k, v and y    *)
(* are the plain products.                                                    *)
C10_ActivationOncePerMapping ==
    Called =>
      LET x == ret.inputs
          head_dim == Shape(x)[3] \div head_num
          val == ret.val
      IN  /\ val.q = Once(activation, Dot(x, Kernel("Wq").value))
          /\ val.k = Once(activation, Dot(x, Kernel("Wk").value))
          /\ val.v = Once(activation, Dot(x, Kernel("Wv").value))
          /\ \A p \in 1..head_num :
               val.outputs[p].out =
                 ScaledDotProductAttention(
                   Cols(val.q, (p - 1) * head_dim + 1, p * head_dim),
                   Cols(val.k, (p - 1) * head_dim + 1, p * head_dim),
                   Cols(val.v, (p - 1) * head_dim + 1, p * head_dim))
          /\ val.concat = Concatenate(Outs(val.outputs))
          /\ val.y = Once(activation, Dot(val.concat, Kernel("Wo").value))
          /\ activation = activations_get(NoneId) =>
               /\ val.q = Dot(x, Kernel("Wq").value)
               /\ val.k = Dot(x, Kernel("Wk").value)
               /\ val.v = Dot(x, Kernel("Wv").value)
               /\ val.y = Dot(val.concat, Kernel("Wo").value)

C10_Witness ==
    /\ Called
    /\ activation = "inc"
    /\ head_num = 2

====
